---- MODULE Spec2Model ----
(***************************************************************************)
(* holepunch-client: the reconnect supervisor (mainLoop), one session      *)
(* attempt (connectToSshAndServe), the per-forward accept loops            *)
(* (forwardOnePort) and the per-connection relay worker (handleClient).    *)
(*                                                                         *)
(* Supervisor, session and accept loops follow src/unnamed/part_000 (the   *)
(* multi-forward program).  The relay inside handleClient follows          *)
(* src/cmd/holepunch/main.go:54-77, the only relay code of the repository: *)
(* part_000 hands the same two connections to bidipipe.Pipe, a library     *)
(* that is not part of the repository.                                     *)
(* Durations are in milliseconds.                                          *)
(***************************************************************************)
EXTENDS Integers, Sequences, FiniteSets

\* ---------------------------------------------------------------- bounds
\* Largest number of configured forwards (len(conf.Forwards)) in AttemptSpec
\* and RelaySpec, the first connect attempt.
MaxForwards == 3
\* Largest number of configured forwards in Spec, the supervisor's whole run.
RunForwards == 2
\* Backoff cycles (calls of backoffTime) explored in one supervisor run.
MaxCycles == 8
\* Sessions (successful handshakes) explored in one supervisor run.
MaxSessions == 2
\* Connections accepted over all remote listeners in one supervisor run.
MaxConns == 2
\* Bytes written through the StreamAdapter in AdapterSpec.
MaxBytes == 9

\* ------------------------------------------------------ program constants
\* backoff.ExponentialWithCappedMax(100*time.Millisecond, 2*time.Second)
BackoffBase == 100
BackoffCap == 2000

VARIABLES
    pc,           \* where mainLoop / connectToSshAndServe stands
    nf,           \* len(conf.Forwards)
    isWs,         \* isWebsocketAddress(conf.SshServer.Address)
    cancelled,    \* ctx.Done() is closed
    attempt,      \* the counter inside the backoffTime closure
    sleepFor,     \* the argument of the running time.Sleep
    slept,        \* the durations of the completed sleeps, in order
    retErr,       \* what connectToSshAndServe returned: "none", "nil", "err"
    result,       \* what mainLoop returned: "none", "nil", "err"
    dials,        \* number of transport dials started
    listenIdx,    \* index of the forward the range loop stands at
    listenLog,    \* the Listen() calls of the current attempt: <<forward, ok>>
    transport,    \* the connection dialed in the current attempt:
                  \* "none", "open", "closed"
    cur,          \* number of sessions created; the current one when serving
    sess,         \* per session: "none", "open", "lost", "closed" (sshClient)
    listenerStopped, \* per session: number of errors buffered in the channel
    lst,          \* per session and forward: the accept goroutine
    failedListen, \* sessions in which a Listen() failed
    workers,      \* the handleClient goroutines, in accept order
    cancelPc,     \* pc at the moment cancel() ran ("none" before)
    cancelDials,  \* dials at the moment cancel() ran
    wsMsgs,       \* StreamAdapter: messages sent and not yet received
    rdBuf,        \* StreamAdapter: unread rest of the last received message
    wrote,        \* StreamAdapter: all bytes handed to write, in order
    got           \* StreamAdapter: all bytes returned by read, in order

vars == <<pc, nf, isWs, cancelled, attempt, sleepFor, slept, retErr, result,
          dials, listenIdx, listenLog, transport, cur, sess, listenerStopped, lst,
          failedListen, workers, cancelPc, cancelDials, wsMsgs, rdBuf,
          wrote, got>>

supVars == <<pc, nf, isWs, attempt, sleepFor, slept, retErr, result, dials,
             listenIdx, listenLog, transport>>
sessVars == <<cur, sess, listenerStopped, lst, failedListen>>
workerVars == <<workers>>
cancelVars == <<cancelled, cancelPc, cancelDials>>
adapterVars == <<wsMsgs, rdBuf, wrote, got>>

Sessions == 1..MaxSessions
ForwardIds == 1..(IF MaxForwards > RunForwards THEN MaxForwards ELSE RunForwards)

Min(a, b) == IF a < b THEN a ELSE b

RECURSIVE Pow2(_)
Pow2(n) == IF n = 0 THEN 1 ELSE 2 * Pow2(n - 1)

\* ---------------------------------------------------------------- backoff
\* Mutant of backoffTime: the cap is not applied.
backoffTimeUncapped(n) ==
    IF n = 0 THEN 0 ELSE BackoffBase * Pow2(n - 1)

\* The n-th call (n = 0, 1, ...) of the closure returned by
\* backoff.ExponentialWithCappedMax(100ms, 2s):
\* "0ms, 100 ms, 200 ms, 400 ms, 800 ms, 1600 ms, 2000 ms, 2000 ms..."
backoffTime(n) ==
    IF n = 0 THEN 0 ELSE Min(BackoffBase * Pow2(n - 1), BackoffCap)

\* Mutant of timeSleep: a sleep that a cancelled context cuts short.
timeSleepInterruptible(d, ctxDone) == IF ctxDone THEN 0 ELSE d

\* time.Sleep(d) returns after d, whatever happens to ctx meanwhile.
timeSleep(d, ctxDone) == d

\* ------------------------------------------------------------------- Init
Init ==
    /\ pc = "readConfig"
    /\ nf = 0
    /\ isWs = FALSE
    /\ cancelled = FALSE
    /\ attempt = 0
    /\ sleepFor = 0
    /\ slept = <<>>
    /\ retErr = "none"
    /\ result = "none"
    /\ dials = 0
    /\ listenIdx = 0
    /\ listenLog = <<>>
    /\ transport = "none"
    /\ cur = 0
    /\ sess = [s \in Sessions |-> "none"]
    /\ listenerStopped = [s \in Sessions |-> 0]
    /\ lst = [s \in Sessions |-> [f \in ForwardIds |-> "none"]]
    /\ failedListen = {}
    /\ workers = <<>>
    /\ cancelPc = "none"
    /\ cancelDials = 0
    /\ wsMsgs = <<>>
    /\ rdBuf = <<>>
    /\ wrote = <<>>
    /\ got = <<>>

\* ------------------------------------------------------------- supervisor
\* mainLoop: conf, err := readConfig(); a failure is returned.  The
\* configuration holds at most maxForwards forwards.
ReadConfig(maxForwards) ==
    /\ pc = "readConfig"
    /\ \/ /\ \E n \in 0..maxForwards, ws \in BOOLEAN :
                /\ nf' = n
                /\ isWs' = ws
          /\ pc' = "loadKey"
          /\ UNCHANGED result
       \/ /\ pc' = "stopped"
          /\ result' = "err"
          /\ UNCHANGED <<nf, isWs>>
    /\ UNCHANGED <<attempt, sleepFor, slept, retErr, dials, listenIdx, listenLog>>
    /\ UNCHANGED <<sessVars, workerVars, cancelVars>>
    /\ UNCHANGED transport
    /\ UNCHANGED adapterVars

\* mainLoop: signerFromPrivateKeyFile; a failure is returned.  On success the
\* backoff closure and the context are created and the loop is entered.
SignerFromPrivateKeyFile ==
    /\ pc = "loadKey"
    /\ \/ /\ pc' = "loop"
          /\ UNCHANGED result
       \/ /\ pc' = "stopped"
          /\ result' = "err"
    /\ UNCHANGED <<nf, isWs, attempt, sleepFor, slept, retErr, dials, listenIdx,
                   listenLog>>
    /\ UNCHANGED <<sessVars, workerVars, cancelVars>>
    /\ UNCHANGED transport
    /\ UNCHANGED adapterVars

\* The goroutine of mainLoop that waits for SIGINT/SIGTERM and calls cancel().
Cancel ==
    /\ pc \notin {"readConfig", "loadKey", "stopped"}
    /\ ~cancelled
    /\ cancelled' = TRUE
    /\ cancelPc' = pc
    /\ cancelDials' = dials
    /\ UNCHANGED <<supVars, sessVars, workerVars>>
    /\ UNCHANGED adapterVars

\* mainLoop calls connectToSshAndServe, which starts the transport dial
\* (connectSshWebsocket or connectSshRegularTcp).
ConnectToSshAndServe ==
    /\ pc = "loop"
    /\ pc' = "dialing"
    /\ dials' = dials + 1
    /\ retErr' = "none"
    /\ listenIdx' = 0
    /\ listenLog' = <<>>
    /\ UNCHANGED <<nf, isWs, attempt, sleepFor, slept, result>>
    /\ UNCHANGED <<sessVars, workerVars, cancelVars>>
    /\ transport' = "none"
    /\ UNCHANGED adapterVars

\* DialContext returns.  A cancelled context makes it return an error.
DialReturn ==
    /\ pc = "dialing"
    /\ \/ /\ ~cancelled
          /\ pc' = IF isWs THEN "keepalive" ELSE "handshake"
          /\ transport' = "open"
          /\ UNCHANGED retErr
       \/ /\ pc' = "returned"
          /\ retErr' = "err"
          /\ UNCHANGED transport
    /\ UNCHANGED <<nf, isWs, attempt, sleepFor, slept, result, dials, listenIdx,
                   listenLog>>
    /\ UNCHANGED <<sessVars, workerVars, cancelVars>>
    /\ UNCHANGED adapterVars

\* connectSshWebsocket: tcpkeepalive.Enable and url.Parse; an error is
\* returned as it is, and wsConn is left as the dial made it.
WebsocketKeepAlive ==
    /\ pc = "keepalive"
    /\ \/ /\ pc' = "handshake"
          /\ UNCHANGED retErr
       \/ /\ pc' = "returned"
          /\ retErr' = "err"
    /\ UNCHANGED <<nf, isWs, attempt, sleepFor, slept, result, dials, listenIdx,
                   listenLog>>
    /\ UNCHANGED <<sessVars, workerVars, cancelVars>>
    /\ UNCHANGED transport
    /\ UNCHANGED adapterVars

\* sshClientForConn: ssh.NewClientConn, which closes conn itself when the
\* handshake fails.  On success the session exists, the
\* channel listenerStopped is made and the range over conf.Forwards starts
\* (with no forward the select is reached at once).
SshClientForConn ==
    /\ pc = "handshake"
    /\ \/ /\ cur < MaxSessions
          /\ cur' = cur + 1
          /\ sess' = [sess EXCEPT ![cur + 1] = "open"]
          /\ pc' = IF nf = 0 THEN "serving" ELSE "listen"
          /\ listenIdx' = 1
          /\ UNCHANGED <<retErr, transport>>
       \/ /\ pc' = "returned"
          /\ retErr' = "err"
          /\ transport' = "closed"
          /\ UNCHANGED <<cur, sess, listenIdx>>
    /\ UNCHANGED <<nf, isWs, attempt, sleepFor, slept, result, dials, listenLog>>
    /\ UNCHANGED <<listenerStopped, lst, failedListen, workerVars, cancelVars>>
    /\ UNCHANGED adapterVars

\* Mutant of sshClientClose: the deferred Close() is missing.
sshClientCloseSkipped(s) == sess

\* defer sshClient.Close() of connectToSshAndServe.
sshClientClose(s) == [sess EXCEPT ![s] = "closed"]

\* Mutant of ForwardOnePort: a failed Listen() is skipped and the range
\* goes on with the next forward.
ForwardOnePortKeepsGoing ==
    /\ pc = "listen"
    /\ \/ /\ sess[cur] = "open"
          /\ lst' = [lst EXCEPT ![cur][listenIdx] = "accepting"]
          /\ listenLog' = Append(listenLog, <<listenIdx, TRUE>>)
          /\ UNCHANGED failedListen
       \/ /\ listenLog' = Append(listenLog, <<listenIdx, FALSE>>)
          /\ failedListen' = failedListen \cup {cur}
          /\ UNCHANGED lst
    /\ listenIdx' = listenIdx + 1
    /\ pc' = IF listenIdx = nf THEN "serving" ELSE "listen"
    /\ UNCHANGED <<nf, isWs, attempt, sleepFor, slept, result, dials, retErr>>
    /\ UNCHANGED <<cur, sess, listenerStopped, workerVars, cancelVars>>
    /\ UNCHANGED transport
    /\ UNCHANGED adapterVars

\* forwardOnePort for conf.Forwards[listenIdx]: sshClient.Listen.  On success
\* the accept goroutine is started at once; on failure the error is
\* returned from connectToSshAndServe, whose defer closes the sshClient.
ForwardOnePort ==
    /\ pc = "listen"
    /\ \/ /\ sess[cur] = "open"
          /\ lst' = [lst EXCEPT ![cur][listenIdx] = "accepting"]
          /\ listenLog' = Append(listenLog, <<listenIdx, TRUE>>)
          /\ listenIdx' = listenIdx + 1
          /\ pc' = IF listenIdx = nf THEN "serving" ELSE "listen"
          /\ UNCHANGED <<sess, failedListen, retErr, transport>>
       \/ /\ listenLog' = Append(listenLog, <<listenIdx, FALSE>>)
          /\ failedListen' = failedListen \cup {cur}
          /\ sess' = sshClientClose(cur)
          /\ transport' = "closed"
          /\ retErr' = "err"
          /\ pc' = "returned"
          /\ UNCHANGED <<lst, listenIdx>>
    /\ UNCHANGED <<nf, isWs, attempt, sleepFor, slept, result, dials>>
    /\ UNCHANGED <<cur, listenerStopped, workerVars, cancelVars>>
    /\ UNCHANGED adapterVars

\* The select of connectToSshAndServe, case <-ctx.Done(): return nil.
SelectCtxDone ==
    /\ pc = "serving"
    /\ cancelled
    /\ retErr' = "nil"
    /\ sess' = sshClientClose(cur)
    /\ pc' = "returned"
    /\ UNCHANGED <<nf, isWs, attempt, sleepFor, slept, result, dials, listenIdx,
                   listenLog>>
    /\ UNCHANGED <<cur, listenerStopped, lst, failedListen, workerVars, cancelVars>>
    /\ transport' = "closed"
    /\ UNCHANGED adapterVars

\* Mutant of SelectListenerStopped: what is received is returned as a nil
\* error.
SelectListenerStoppedNil ==
    /\ pc = "serving"
    /\ listenerStopped[cur] > 0
    /\ listenerStopped' = [listenerStopped EXCEPT ![cur] = @ - 1]
    /\ retErr' = "nil"
    /\ sess' = sshClientClose(cur)
    /\ pc' = "returned"
    /\ UNCHANGED <<nf, isWs, attempt, sleepFor, slept, result, dials, listenIdx,
                   listenLog>>
    /\ UNCHANGED <<cur, lst, failedListen, workerVars, cancelVars>>
    /\ transport' = "closed"
    /\ UNCHANGED adapterVars

\* Mutant of SelectListenerStopped: one channel for the whole run, so a
\* report of any session made so far is received.
SelectListenerStoppedShared ==
    /\ pc = "serving"
    /\ \E s \in 1..cur :
          /\ listenerStopped[s] > 0
          /\ listenerStopped' = [listenerStopped EXCEPT ![s] = @ - 1]
    /\ retErr' = "err"
    /\ sess' = sshClientClose(cur)
    /\ pc' = "returned"
    /\ UNCHANGED <<nf, isWs, attempt, sleepFor, slept, result, dials, listenIdx,
                   listenLog>>
    /\ UNCHANGED <<cur, lst, failedListen, workerVars, cancelVars>>
    /\ transport' = "closed"
    /\ UNCHANGED adapterVars

\* Mutant of SelectListenerStopped: the backoff counter starts over after a
\* session that served.
SelectListenerStoppedResets ==
    /\ pc = "serving"
    /\ listenerStopped[cur] > 0
    /\ listenerStopped' = [listenerStopped EXCEPT ![cur] = @ - 1]
    /\ retErr' = "err"
    /\ sess' = sshClientClose(cur)
    /\ pc' = "returned"
    /\ attempt' = 0
    /\ UNCHANGED <<nf, isWs, sleepFor, slept, result, dials, listenIdx, listenLog>>
    /\ UNCHANGED <<cur, lst, failedListen, workerVars, cancelVars>>
    /\ transport' = "closed"
    /\ UNCHANGED adapterVars

\* The select, case listenerFirstErr := <-listenerStopped: return it.
SelectListenerStopped ==
    /\ pc = "serving"
    /\ listenerStopped[cur] > 0
    /\ listenerStopped' = [listenerStopped EXCEPT ![cur] = @ - 1]
    /\ retErr' = "err"
    /\ sess' = sshClientClose(cur)
    /\ pc' = "returned"
    /\ UNCHANGED <<nf, isWs, attempt, sleepFor, slept, result, dials, listenIdx,
                   listenLog>>
    /\ UNCHANGED <<cur, lst, failedListen, workerVars, cancelVars>>
    /\ transport' = "closed"
    /\ UNCHANGED adapterVars

\* Mutant of MainLoopCtxDone: the context is not looked at and the loop
\* goes on to its backoff sleep.
MainLoopCtxIgnored ==
    /\ pc = "returned"
    /\ cancelled
    /\ attempt < MaxCycles
    /\ sleepFor' = backoffTime(attempt)
    /\ attempt' = attempt + 1
    /\ pc' = "sleeping"
    /\ UNCHANGED <<nf, isWs, slept, retErr, result, dials, listenIdx, listenLog>>
    /\ UNCHANGED <<sessVars, workerVars, cancelVars>>
    /\ UNCHANGED transport
    /\ UNCHANGED adapterVars

\* mainLoop after connectToSshAndServe returned: case <-ctx.Done(): return nil.
MainLoopCtxDone ==
    /\ pc = "returned"
    /\ cancelled
    /\ pc' = "stopped"
    /\ result' = "nil"
    /\ UNCHANGED <<nf, isWs, attempt, sleepFor, slept, retErr, dials, listenIdx,
                   listenLog>>
    /\ UNCHANGED <<sessVars, workerVars, cancelVars>>
    /\ UNCHANGED transport
    /\ UNCHANGED adapterVars

\* Mutant of MainLoopBackoff: the error of the attempt is returned.
MainLoopReturnsErr ==
    /\ pc = "returned"
    /\ ~cancelled
    /\ pc' = "stopped"
    /\ result' = "err"
    /\ UNCHANGED <<nf, isWs, attempt, sleepFor, slept, retErr, dials, listenIdx,
                   listenLog>>
    /\ UNCHANGED <<sessVars, workerVars, cancelVars>>
    /\ UNCHANGED transport
    /\ UNCHANGED adapterVars

\* mainLoop, default case: log.Error(err.Error()) (a nil err panics),
\* then backoffTime() is called and time.Sleep starts.
MainLoopBackoff ==
    /\ pc = "returned"
    /\ ~cancelled
    /\ attempt < MaxCycles
    /\ sleepFor' = backoffTime(attempt)
    /\ attempt' = attempt + 1
    /\ pc' = IF retErr = "nil" THEN "panic" ELSE "sleeping"
    /\ UNCHANGED <<nf, isWs, slept, retErr, result, dials, listenIdx, listenLog>>
    /\ UNCHANGED <<sessVars, workerVars, cancelVars>>
    /\ UNCHANGED transport
    /\ UNCHANGED adapterVars

\* time.Sleep returns and the for loop starts over.
TimeSleepReturn ==
    /\ pc = "sleeping"
    /\ slept' = Append(slept, timeSleep(sleepFor, cancelled))
    /\ pc' = "loop"
    /\ UNCHANGED <<nf, isWs, attempt, sleepFor, retErr, result, dials, listenIdx,
                   listenLog>>
    /\ UNCHANGED <<sessVars, workerVars, cancelVars>>
    /\ UNCHANGED transport
    /\ UNCHANGED adapterVars

\* ------------------------------------------------- transport and listeners
\* The broker connection of the open session breaks (network, broker restart).
ConnLost ==
    /\ cur > 0
    /\ sess[cur] = "open"
    /\ sess' = [sess EXCEPT ![cur] = "lost"]
    /\ UNCHANGED <<supVars, cur, listenerStopped, lst, failedListen, workerVars,
                   cancelVars>>
    /\ UNCHANGED adapterVars

\* Mutant of forwardLocal: every worker dials the first forward's endpoint.
forwardLocalFirst(f) == 1

\* The endpoint handleClient dials for a connection accepted on forward f:
\* forward.Local.String().
forwardLocal(f) == f

\* The accept goroutine of forwardOnePort: listener.Accept() returned a
\* connection; go handleClient(client, forward).
ListenerAccept(s, f) ==
    /\ lst[s][f] = "accepting"
    /\ sess[s] = "open"
    /\ Len(workers) < MaxConns
    /\ workers' = Append(workers,
           [sess |-> s, fwd |-> f, conn |-> Len(workers) + 1, pc |-> "dial",
            local |-> 0, client |-> "open", remote |-> "none",
            peerClosed |-> FALSE,
            svcClosed |-> FALSE, toClient |-> "idle", toLocal |-> "idle",
            relayed |-> FALSE])
    /\ UNCHANGED <<supVars, sessVars, cancelVars>>
    /\ UNCHANGED adapterVars

\* Mutant of listenerStoppedCap: a channel that holds a single report.
listenerStoppedCapOne(n) == IF n = 0 THEN 0 ELSE 1

\* Capacity of the channel: make(chan error, len(conf.Forwards)).
listenerStoppedCap(n) == n

\* listener.Accept() returned an error (the connection of the session is
\* gone): listenerStopped <- fmt.Errorf(...), then return.  The send waits
\* while the channel is full.
ListenerAcceptFail(s, f) ==
    /\ lst[s][f] = "accepting"
    /\ sess[s] \in {"lost", "closed"}
    /\ listenerStopped[s] < listenerStoppedCap(nf)
    /\ listenerStopped' = [listenerStopped EXCEPT ![s] = @ + 1]
    /\ lst' = [lst EXCEPT ![s][f] = "done"]
    /\ UNCHANGED <<supVars, cur, sess, failedListen, workerVars, cancelVars>>
    /\ UNCHANGED adapterVars

\* ------------------------------------------------------------- handleClient
\* The accepted connection of worker w can no longer carry data: closed
\* here, closed by the remote peer, or the session's connection is gone.
ClientDead(w) ==
    \/ w.client = "closed"
    \/ w.peerClosed
    \/ sess[w.sess] # "open"

\* Mutant of HandleClientDial: a failed dial returns without closing the
\* accepted connection.
HandleClientDialLeaksClient(i) ==
    /\ workers[i].pc = "dial"
    /\ \/ workers' = [workers EXCEPT ![i].pc = "done"]
       \/ workers' = [workers EXCEPT ![i].pc = "wait",
                                     ![i].local = forwardLocal(workers[i].fwd),
                                     ![i].remote = "open",
                                     ![i].toClient = "copy",
                                     ![i].toLocal = "copy"]
    /\ UNCHANGED <<supVars, sessVars, cancelVars>>
    /\ UNCHANGED adapterVars

\* handleClient: net.Dial("tcp", forward.Local.String()).  On an error the
\* deferred client.Close() runs and the worker ends; otherwise both copy
\* goroutines are started and the worker waits on chDone.
HandleClientDial(i) ==
    /\ workers[i].pc = "dial"
    /\ \/ workers' = [workers EXCEPT ![i].pc = "done", ![i].client = "closed"]
       \/ workers' = [workers EXCEPT ![i].pc = "wait",
                                     ![i].local = forwardLocal(workers[i].fwd),
                                     ![i].remote = "open",
                                     ![i].toClient = "copy",
                                     ![i].toLocal = "copy"]
    /\ UNCHANGED <<supVars, sessVars, cancelVars>>
    /\ UNCHANGED adapterVars

\* io.Copy(client, remote) moves data read from the local service to the
\* accepted connection.
CopyToClient(i) ==
    /\ workers[i].toClient = "copy"
    /\ ~workers[i].svcClosed
    /\ ~ClientDead(workers[i])
    /\ workers' = [workers EXCEPT ![i].relayed = TRUE]
    /\ UNCHANGED <<supVars, sessVars, cancelVars>>
    /\ UNCHANGED adapterVars

\* io.Copy(client, remote) returns: EOF from the local service, or a write
\* to the accepted connection failed.  The goroutine goes on to chDone <- true.
CopyToClientEnds(i) ==
    /\ workers[i].toClient = "copy"
    /\ workers[i].svcClosed \/ ClientDead(workers[i])
    /\ workers' = [workers EXCEPT ![i].toClient = "send"]
    /\ UNCHANGED <<supVars, sessVars, cancelVars>>
    /\ UNCHANGED adapterVars

\* io.Copy(remote, client) moves data read from the accepted connection to
\* the local service.
CopyToLocal(i) ==
    /\ workers[i].toLocal = "copy"
    /\ ~workers[i].svcClosed
    /\ ~ClientDead(workers[i])
    /\ workers' = [workers EXCEPT ![i].relayed = TRUE]
    /\ UNCHANGED <<supVars, sessVars, cancelVars>>
    /\ UNCHANGED adapterVars

\* Mutant of CopyToLocalEnds: the relay error is also reported on the
\* session's channel listenerStopped.
CopyToLocalEndsReports(i) ==
    /\ workers[i].toLocal = "copy"
    /\ workers[i].svcClosed \/ ClientDead(workers[i])
    /\ workers' = [workers EXCEPT ![i].toLocal = "send"]
    /\ listenerStopped' =
          [listenerStopped EXCEPT ![workers[i].sess] = Min(@ + 1, nf)]
    /\ UNCHANGED <<supVars, cur, sess, lst, failedListen, cancelVars>>
    /\ UNCHANGED adapterVars

\* io.Copy(remote, client) returns: EOF or error from the accepted
\* connection, or a write to the local service failed.
CopyToLocalEnds(i) ==
    /\ workers[i].toLocal = "copy"
    /\ workers[i].svcClosed \/ ClientDead(workers[i])
    /\ workers' = [workers EXCEPT ![i].toLocal = "send"]
    /\ UNCHANGED <<supVars, sessVars, cancelVars>>
    /\ UNCHANGED adapterVars

\* What handleClient closes when it returns: its deferred client.Close().
\* The connection to the local service is closed nowhere.
handleClientReturn(w) == [w EXCEPT !.pc = "done", !.client = "closed"]

\* <-chDone receives from the copy goroutine that is ready to send (chDone is
\* unbuffered); that goroutine ends and handleClient returns.
ChDoneToClient(i) ==
    /\ workers[i].pc = "wait"
    /\ workers[i].toClient = "send"
    /\ workers' = [workers EXCEPT
                     ![i] = handleClientReturn([@ EXCEPT !.toClient = "done"])]
    /\ UNCHANGED <<supVars, sessVars, cancelVars>>
    /\ UNCHANGED adapterVars

ChDoneToLocal(i) ==
    /\ workers[i].pc = "wait"
    /\ workers[i].toLocal = "send"
    /\ workers' = [workers EXCEPT
                     ![i] = handleClientReturn([@ EXCEPT !.toLocal = "done"])]
    /\ UNCHANGED <<supVars, sessVars, cancelVars>>
    /\ UNCHANGED adapterVars

\* The remote peer closes the accepted connection.
PeerClose(i) ==
    /\ workers[i].pc = "wait"
    /\ ~workers[i].peerClosed
    /\ sess[workers[i].sess] = "open"
    /\ workers' = [workers EXCEPT ![i].peerClosed = TRUE]
    /\ UNCHANGED <<supVars, sessVars, cancelVars>>
    /\ UNCHANGED adapterVars

\* The local service closes the connection handleClient dialed.
LocalServiceClose(i) ==
    /\ workers[i].local # 0
    /\ ~workers[i].svcClosed
    /\ "copy" \in {workers[i].toClient, workers[i].toLocal}
    /\ workers' = [workers EXCEPT ![i].svcClosed = TRUE]
    /\ UNCHANGED <<supVars, sessVars, cancelVars>>
    /\ UNCHANGED adapterVars

\* ------------------------------------------------------------ StreamAdapter
\* The adapter connectSshWebsocket wraps around the websocket
\* (wsconnadapter.New(wsConn)); its read and write follow section 4.1 of the
\* specification.  A byte is named by its position in the written stream.
\* The sizes stand for the 1, 1000, 65536 byte writes and the 1, 7, 4096
\* byte read buffers, in the same order: 1 <= 1 < 2 < 3 < 4 < 5.
AdapterWriteSizes == {1, 3, 5}
AdapterReadSizes == {1, 2, 4}

\* Mutant of adapterTake: what the caller's buffer cannot hold is dropped.
adapterTakeDropsRest(buf, k) ==
    [out |-> SubSeq(buf, 1, Min(k, Len(buf))), rest |-> <<>>]

\* read(buf) over the bytes at hand: up to len(buf) of them are returned and
\* the others are kept for the next read.
adapterTake(buf, k) ==
    [out |-> SubSeq(buf, 1, Min(k, Len(buf))),
     rest |-> SubSeq(buf, Min(k, Len(buf)) + 1, Len(buf))]

\* write(buf): each call goes out as one message.
AdapterWrite(n) ==
    /\ Len(wrote) + n <= MaxBytes
    /\ LET msg == [i \in 1..n |-> Len(wrote) + i]
       IN  /\ wsMsgs' = Append(wsMsgs, msg)
           /\ wrote' = wrote \o msg
    /\ UNCHANGED <<rdBuf, got>>
    /\ UNCHANGED <<supVars, sessVars, workerVars, cancelVars>>

\* read(buf) with len(buf) = k: from the unread rest of the last message if
\* there is one, otherwise from the next message (it waits for one).
AdapterRead(k) ==
    /\ rdBuf # <<>> \/ wsMsgs # <<>>
    /\ LET fromBuf == rdBuf # <<>>
           r == adapterTake(IF fromBuf THEN rdBuf ELSE Head(wsMsgs), k)
       IN  /\ got' = got \o r.out
           /\ rdBuf' = r.rest
           /\ wsMsgs' = IF fromBuf THEN wsMsgs ELSE Tail(wsMsgs)
    /\ UNCHANGED wrote
    /\ UNCHANGED <<supVars, sessVars, workerVars, cancelVars>>

\* ------------------------------------------------------------ specification
\* One call of connectToSshAndServe, from the dial to its return.
Attempt ==
    \/ ConnectToSshAndServe
    \/ DialReturn
    \/ WebsocketKeepAlive
    \/ SshClientForConn
    \/ ForwardOnePort
    \/ SelectCtxDone
    \/ SelectListenerStopped

Startup(maxForwards) ==
    \/ ReadConfig(maxForwards)
    \/ SignerFromPrivateKeyFile

Backoff ==
    \/ MainLoopBackoff
    \/ TimeSleepReturn

Supervisor ==
    \/ Startup(RunForwards)
    \/ Attempt
    \/ MainLoopCtxDone
    \/ Backoff

AcceptLoops ==
    \E s \in Sessions, f \in ForwardIds : ListenerAcceptFail(s, f)

Incoming ==
    \E s \in Sessions, f \in ForwardIds : ListenerAccept(s, f)

Workers ==
    \E i \in DOMAIN workers :
        \/ HandleClientDial(i)
        \/ CopyToClient(i)
        \/ CopyToClientEnds(i)
        \/ CopyToLocal(i)
        \/ CopyToLocalEnds(i)
        \/ ChDoneToClient(i)
        \/ ChDoneToLocal(i)
        \/ PeerClose(i)
        \/ LocalServiceClose(i)

\* The supervisor over its whole run, with the accept loops of its sessions;
\* no remote peer connects.
Next ==
    \/ Supervisor
    \/ Cancel
    \/ ConnLost
    \/ AcceptLoops

Spec == Init /\ [][Next]_vars

\* The Go scheduler runs the supervisor goroutine when its select has a
\* ready case and when it stands at the ctx check after the call returned.
FairSpec ==
    /\ Spec
    /\ WF_vars(SelectCtxDone)
    /\ WF_vars(SelectListenerStopped)
    /\ WF_vars(MainLoopCtxDone)

\* The goroutine of mainLoop runs on whenever it has a step to take: every
\* dial, handshake and Listen call returns, every sleep ends, a select with
\* a ready case is left.
SupervisorFairSpec ==
    /\ Spec
    /\ WF_vars(Supervisor)

\* mainLoop up to the end of its first connect attempt, with the accept
\* loops of that attempt; no remote peer connects.
AttemptNext ==
    \/ Startup(MaxForwards)
    \/ Attempt
    \/ MainLoopCtxDone
    \/ Cancel
    \/ ConnLost
    \/ AcceptLoops

AttemptSpec == Init /\ [][AttemptNext]_vars

\* An accept goroutine whose Accept() has returned an error runs on: while
\* some listener of a dead session is still accepting, one of them gets to
\* its send.
ListenerFairSpec ==
    /\ AttemptSpec
    /\ WF_vars(AcceptLoops)

\* The first connect attempt (direct TCP, no signal) with its accept loops,
\* the connections that arrive on them and their handleClient workers.
\* InitRelay is the state in which mainLoop enters its loop.
InitRelay ==
    /\ pc = "loop"
    /\ nf \in 1..MaxForwards
    /\ isWs = FALSE
    /\ cancelled = FALSE
    /\ attempt = 0
    /\ sleepFor = 0
    /\ slept = <<>>
    /\ retErr = "none"
    /\ result = "none"
    /\ dials = 0
    /\ listenIdx = 0
    /\ listenLog = <<>>
    /\ transport = "none"
    /\ cur = 0
    /\ sess = [s \in Sessions |-> "none"]
    /\ listenerStopped = [s \in Sessions |-> 0]
    /\ lst = [s \in Sessions |-> [f \in ForwardIds |-> "none"]]
    /\ failedListen = {}
    /\ workers = <<>>
    /\ cancelPc = "none"
    /\ cancelDials = 0
    /\ wsMsgs = <<>>
    /\ rdBuf = <<>>
    /\ wrote = <<>>
    /\ got = <<>>

RelayNext ==
    \/ ConnectToSshAndServe
    \/ DialReturn
    \/ SshClientForConn
    \/ ForwardOnePort
    \/ SelectListenerStopped
    \/ ConnLost
    \/ AcceptLoops
    \/ Incoming
    \/ Workers

RelaySpec == InitRelay /\ [][RelayNext]_vars

\* The StreamAdapter alone, while sshClientForConn talks over it: the state
\* in which connectSshWebsocket has made the adapter, then its writes on one
\* side and its reads on the other.
InitAdapter ==
    /\ pc = "handshake"
    /\ nf = 1
    /\ isWs = TRUE
    /\ cancelled = FALSE
    /\ attempt = 0
    /\ sleepFor = 0
    /\ slept = <<>>
    /\ retErr = "none"
    /\ result = "none"
    /\ dials = 1
    /\ listenIdx = 0
    /\ listenLog = <<>>
    /\ transport = "open"
    /\ cur = 0
    /\ sess = [s \in Sessions |-> "none"]
    /\ listenerStopped = [s \in Sessions |-> 0]
    /\ lst = [s \in Sessions |-> [f \in ForwardIds |-> "none"]]
    /\ failedListen = {}
    /\ workers = <<>>
    /\ cancelPc = "none"
    /\ cancelDials = 0
    /\ wsMsgs = <<>>
    /\ rdBuf = <<>>
    /\ wrote = <<>>
    /\ got = <<>>

AdapterNext ==
    \/ \E n \in AdapterWriteSizes : AdapterWrite(n)
    \/ \E k \in AdapterReadSizes : AdapterRead(k)

AdapterSpec == InitAdapter /\ [][AdapterNext]_vars

\* ================================================================= claims

\* ---- C1 (FairSpec)
\* C1: when cancel() runs while the supervisor is in the select of
\* connectToSshAndServe, no further dial is started, the supervisor only
\* moves on to the ctx check and to Stopped, mainLoop returns nil, and
\* Stopped is eventually reached.
C1_CancelWhileServing ==
    /\ [](cancelPc = "serving" =>
            /\ dials = cancelDials
            /\ pc \in {"serving", "returned", "stopped"}
            /\ (pc = "stopped" => result = "nil"))
    /\ ((cancelPc = "serving") ~> (pc = "stopped" /\ result = "nil"))

C1_Witness ==
    /\ cancelPc = "serving"
    /\ pc = "stopped"
    /\ result = "nil"
    /\ nf > 0

\* ---- C2 (Spec)
\* The closed form the claim gives for the n-th delay, n counted from 0.
C2_ClaimedDelay(n) == Min(100 * Pow2(n), 2000)

\* C2 as stated: the n-th completed sleep lasted min(100 * 2^n, 2000) ms.
C2_Original ==
    \A i \in DOMAIN slept : slept[i] = C2_ClaimedDelay(i - 1)

\* C2 as amended: the first sleep lasts 0 ms and the n-th (n >= 1) lasts
\* min(100 * 2^(n-1), 2000) ms: 0, 100, 200, 400, 800, 1600, 2000, 2000;
\* no sleep exceeds 2000 ms.
C2_Amended ==
    /\ \A i \in DOMAIN slept :
          /\ slept[i] = (IF i = 1 THEN 0 ELSE C2_ClaimedDelay(i - 2))
          /\ slept[i] <= 2000
    /\ pc = "sleeping" =>
          /\ sleepFor = (IF attempt = 1 THEN 0 ELSE C2_ClaimedDelay(attempt - 2))
          /\ sleepFor <= 2000

C2_Witness ==
    /\ Len(slept) >= 8
    /\ slept[1] = 0
    /\ slept[2] = 100
    /\ slept[7] = 2000
    /\ slept[8] = 2000

\* ---- C3 (RelaySpec)
\* C3: in an attempt in which a Listen() failed, no handleClient worker was
\* ever started and no byte was relayed, and connectToSshAndServe returned
\* that one error.
C3_PartialFailure ==
    /\ \A i \in DOMAIN workers : workers[i].sess \notin failedListen
    /\ \A i \in DOMAIN workers :
          workers[i].sess \in failedListen => ~workers[i].relayed
    /\ (cur \in failedListen /\ pc = "returned") => retErr = "err"

\* ---- C4 (AttemptSpec)
\* C4: the Listen() calls of one attempt are made for forwards 1, 2, ... in
\* configuration order, each after the one before it succeeded, and none is
\* made after the first failure.
C4_ListenInOrder ==
    /\ Len(listenLog) <= nf
    /\ \A i \in DOMAIN listenLog :
          /\ listenLog[i][1] = i
          /\ (i < Len(listenLog) => listenLog[i][2])
    /\ (Len(listenLog) > 0 /\ ~listenLog[Len(listenLog)][2]) =>
          pc \notin {"listen", "serving"}

C4_Witness ==
    /\ nf = 3
    /\ listenLog = << <<1, TRUE>>, <<2, FALSE>> >>
    /\ pc = "returned"

\* ---- C5 (Spec)
\* C5: every way connectToSshAndServe fails hands mainLoop an error; from
\* the ctx check mainLoop goes to its backoff sleep and from there to a new
\* connect attempt, unless cancellation was requested, the only way to
\* Stopped once a dial has started, and then mainLoop returns nil: it never
\* returns an error after the first dial.
C5_RetriesForever ==
    /\ [][ /\ (pc # "returned" /\ pc' = "returned") =>
                (retErr' = "err" \/ (retErr' = "nil" /\ cancelled))
           /\ (pc = "returned" /\ pc' # "returned") =>
                IF cancelled
                THEN pc' = "stopped" /\ result' = "nil"
                ELSE pc' = "sleeping"
           /\ (pc = "sleeping" /\ pc' # "sleeping") => pc' = "loop"
           /\ (pc = "loop" /\ pc' # "loop") =>
                (pc' = "dialing" /\ dials' = dials + 1) ]_vars
    /\ [](dials > 0 => result # "err")
    /\ []((pc = "stopped" /\ dials > 0) => (cancelled /\ result = "nil"))

C5_Witness ==
    /\ ~cancelled
    /\ dials = 5
    /\ pc = "dialing"
    /\ cur = 2
    /\ failedListen = {2}
    /\ lst[1][1] = "done"
    /\ isWs

\* ---- C6 (RelaySpec)
\* C6: once handleClient has returned after a relay, the accepted connection
\* and the connection to the local service are both closed and neither copy
\* goroutine is still copying or blocked on chDone.
C6_WorkerCleansUp ==
    \A i \in DOMAIN workers :
        (workers[i].pc = "done" /\ workers[i].local # 0) =>
            /\ workers[i].client = "closed"
            /\ workers[i].remote = "closed"
            /\ workers[i].toClient = "done"
            /\ workers[i].toLocal = "done"

\* ---- C7 (RelaySpec)
\* The relayed streams: <<forward the connection was accepted on, local
\* endpoint the bytes went to or came from>>.
Delivered ==
    {<<workers[i].fwd, workers[i].local>> :
        i \in {j \in DOMAIN workers : workers[j].relayed}}

\* C7: the i-th accepted connection belongs to the i-th worker and to no
\* other, a worker's local connection goes to its own forward's local
\* endpoint, and every relayed byte stays between a connection accepted on
\* forward f and f's local endpoint.
C7_ForwardsIndependent ==
    /\ \A i \in DOMAIN workers :
          /\ workers[i].conn = i
          /\ workers[i].fwd \in 1..nf
          /\ lst[workers[i].sess][workers[i].fwd] # "none"
          /\ workers[i].local \in {0, forwardLocal(workers[i].fwd)}
          /\ workers[i].relayed => workers[i].local = workers[i].fwd
    /\ \A d \in Delivered : d[1] = d[2]

C7_Witness ==
    \E i, j \in DOMAIN workers :
        /\ workers[i].fwd = 1
        /\ workers[j].fwd = 2
        /\ workers[i].pc = "wait" /\ workers[j].pc = "wait"
        /\ workers[i].relayed /\ workers[j].relayed
        /\ Delivered = {<<1, 1>>, <<2, 2>>}
        /\ pc = "serving"

\* ---- C8 (Spec)
\* C8: the backoff counter never goes down, it counts every backoff cycle of
\* the run (also those after a session that served), and the completed
\* sleeps are non-decreasing and stay at the cap once they reached it.
C8_CounterNeverReset ==
    /\ [][attempt' >= attempt]_vars
    /\ [](attempt = Len(slept) + (IF pc = "sleeping" THEN 1 ELSE 0))
    /\ [](\A i, j \in DOMAIN slept :
            i <= j => /\ slept[i] <= slept[j]
                      /\ (slept[i] = BackoffCap => slept[j] = BackoffCap))

C8_Witness ==
    /\ nf = 1
    /\ lst[1][1] = "done"
    /\ failedListen = {}
    /\ Len(slept) = 8
    /\ slept[7] = BackoffCap
    /\ slept[8] = BackoffCap
    /\ cur = 2
    /\ pc = "serving"

\* ---- C9 (Spec)
\* C9: from the ctx check with cancellation requested, mainLoop goes to
\* Stopped with nil whatever connectToSshAndServe returned, without a
\* backoff cycle; a sleep that has begun ends only after its full duration,
\* also when cancellation is requested meanwhile.
C9_CancelAndSleep ==
    [][ /\ (pc = "returned" /\ cancelled /\ pc' # "returned") =>
              /\ pc' = "stopped"
              /\ result' = "nil"
              /\ attempt' = attempt
              /\ slept' = slept
        /\ (pc = "sleeping" /\ pc' # "sleeping") =>
              /\ slept' = Append(slept, sleepFor)
              /\ sleepFor = backoffTime(attempt - 1)
              /\ pc' = "loop" ]_vars

C9_Witness ==
    /\ cancelPc = "sleeping"
    /\ pc = "stopped"
    /\ result = "nil"
    /\ retErr = "err"
    /\ slept = <<0, 100>>
    /\ attempt = 2

\* ---- C10 (AdapterSpec)
RECURSIVE Flatten(_)
Flatten(msgs) == IF msgs = <<>> THEN <<>> ELSE Head(msgs) \o Flatten(Tail(msgs))

\* C10: the bytes returned by the reads so far, then the unread rest the
\* adapter holds, then the messages still under way are exactly the bytes
\* written, in order; once everything was read, the bytes read are the
\* bytes written.
C10_RoundTrip ==
    /\ got \o rdBuf \o Flatten(wsMsgs) = wrote
    /\ wrote = [i \in 1..Len(wrote) |-> i]
    /\ (rdBuf = <<>> /\ wsMsgs = <<>>) => got = wrote

\* A 5 byte message read with a 2 byte buffer: 3 bytes are kept, and a
\* 3 byte message waits behind it.
C10_Witness ==
    /\ wrote = <<1, 2, 3, 4, 5, 6, 7, 8, 9>>
    /\ got = <<1, 2, 3>>
    /\ rdBuf = <<4, 5, 6>>
    /\ wsMsgs = << <<7, 8, 9>> >>

\* ---- C11 (AttemptSpec)
\* C11: whenever connectToSshAndServe stands at its select, a Listen() was
\* made for every configured forward of this session, in order, each one
\* succeeded, and the accept goroutine of every forward was started.
C11_ServingHasAllListeners ==
    pc = "serving" =>
        /\ cur \notin failedListen
        /\ listenLog = [i \in 1..nf |-> <<i, TRUE>>]
        /\ \A f \in 1..nf : lst[cur][f] \in {"accepting", "done"}
        /\ \A f \in ForwardIds \ (1..nf) : lst[cur][f] = "none"

C11_Witness ==
    /\ pc = "serving"
    /\ nf = 3
    /\ \A f \in 1..3 : lst[cur][f] = "accepting"
    /\ sess[cur] = "open"

\* ---- C12 (Spec)
\* C12: a listener whose Accept() failed has sent one report and stays
\* ended; a session's channel holds at most one report per ended listener
\* and never more than there are forwards; and a listener that is still
\* accepting always finds room in the channel, so its send does not wait,
\* also after connectToSshAndServe returned from that session.
C12_OneReportNeverBlocks ==
    /\ [][\A s \in Sessions, f \in ForwardIds :
            /\ lst[s][f] = "done" => lst'[s][f] = "done"
            /\ (lst[s][f] = "accepting" /\ lst'[s][f] = "done") =>
                  listenerStopped'[s] = listenerStopped[s] + 1]_vars
    /\ [](\A s \in Sessions :
            LET ended == Cardinality({f \in ForwardIds : lst[s][f] = "done"})
            IN  /\ listenerStopped[s] <= ended
                /\ listenerStopped[s] >= ended - 1
                /\ listenerStopped[s] <= nf
                /\ \A f \in ForwardIds :
                      lst[s][f] = "accepting" =>
                          listenerStopped[s] < listenerStoppedCap(nf))

C12_Witness ==
    /\ nf = 2
    /\ cur = 2
    /\ pc = "serving"
    /\ sess[1] = "closed"
    /\ lst[1][1] = "done"
    /\ lst[1][2] = "done"
    /\ listenerStopped[1] = 1

\* ---- C13 (ListenerFairSpec)
\* C13: once connectToSshAndServe has returned from a session, however it
\* ended, the session's sshClient is closed; and the accept goroutines of a
\* closed session all end eventually, also those whose Accept() had not
\* failed before.
C13_SessionEndStopsListeners ==
    /\ [](\A s \in Sessions :
            (s <= cur /\ (s < cur \/ pc \notin {"listen", "serving"})) =>
                sess[s] = "closed")
    /\ \A s \in Sessions :
          (sess[s] = "closed") ~>
              (\A f \in ForwardIds : lst[s][f] # "accepting")

C13_Witness ==
    /\ nf = 2
    /\ failedListen = {1}
    /\ listenLog = << <<1, TRUE>>, <<2, FALSE>> >>
    /\ sess[1] = "closed"
    /\ lst[1][1] = "done"
    /\ pc = "returned"

\* ---- C14 (RelaySpec)
\* C14: a handleClient whose net.Dial failed has ended with its accepted
\* connection closed, without a connection to the local service, without
\* either copy goroutine and without a relayed byte.
C14_DialFailureEndsWorker ==
    \A i \in DOMAIN workers :
        (workers[i].pc = "done" /\ workers[i].local = 0) =>
            /\ workers[i].client = "closed"
            /\ workers[i].remote = "none"
            /\ workers[i].toClient = "idle"
            /\ workers[i].toLocal = "idle"
            /\ ~workers[i].relayed

C14_Witness ==
    /\ Len(workers) = 1
    /\ workers[1].pc = "done"
    /\ workers[1].local = 0
    /\ workers[1].client = "closed"
    /\ sess[1] = "open"
    /\ pc = "serving"

\* ---- C15 (RelaySpec)
\* C15: a step of a handleClient worker (its dial failing, a copy ending on
\* EOF or error, its return) changes that one worker only: the channel
\* listenerStopped, the sshClient, the listeners, mainLoop's position and
\* backoff counter and every other worker stay as they are.
C15_WorkerFrame ==
    [][(Len(workers') = Len(workers) /\ workers' # workers) =>
          /\ UNCHANGED <<listenerStopped, sess, lst, failedListen, cur>>
          /\ UNCHANGED <<pc, attempt, sleepFor, slept, retErr, result, dials,
                         listenIdx, listenLog, cancelled>>
          /\ \E i \in DOMAIN workers :
                \A j \in DOMAIN workers \ {i} : workers'[j] = workers[j]]_vars

\* Worker 1 ended on a relay error while worker 2 goes on relaying in an
\* open session.
C15_Witness ==
    /\ Len(workers) = 2
    /\ workers[1].pc = "done"
    /\ workers[1].local # 0
    /\ workers[1].peerClosed
    /\ workers[2].pc = "wait"
    /\ workers[2].relayed
    /\ workers[2].client = "open"
    /\ ~workers[2].peerClosed
    /\ sess[1] = "open"
    /\ listenerStopped[1] = 0
    /\ pc = "serving"

\* ---- C16 (SupervisorFairSpec)
\* C16: after cancel(), wherever mainLoop stood, at most one more dial is
\* started, and one is started only when cancel() came while mainLoop was
\* outside connectToSshAndServe on its way to the next call (in the backoff
\* sleep or between the sleep and the call); mainLoop then returns, and it
\* returns nil.
C16_CancelAnywhere ==
    /\ [](cancelled =>
            /\ dials <= cancelDials + 1
            /\ (dials > cancelDials => cancelPc \in {"sleeping", "loop"})
            /\ (pc = "stopped" => result = "nil"))
    /\ (cancelled ~> (pc = "stopped" /\ result = "nil"))

C16_Witness ==
    /\ cancelPc = "sleeping"
    /\ dials = cancelDials + 1
    /\ cancelDials = 2
    /\ pc = "stopped"
    /\ result = "nil"

\* ---- C17 (Spec)
\* C17: connectToSshAndServe has returned nil only if cancel() ran before;
\* mainLoop never calls err.Error() on a nil err, and while it sleeps the
\* err it logged is non-nil.  With no forward configured nothing is ever
\* sent on listenerStopped.
C17_NilOnlyWhenCancelled ==
    /\ retErr = "nil" => cancelled
    /\ pc # "panic"
    /\ pc = "sleeping" => retErr = "err"
    /\ nf = 0 => \A s \in Sessions : listenerStopped[s] = 0

C17_Witness ==
    /\ nf = 0
    /\ pc = "returned"
    /\ retErr = "nil"
    /\ cancelled
    /\ slept = <<0>>

\* ---- C18 (Spec)
\* C18: at most one sshClient is unclosed at any time, and it is the one of
\* the current session; while mainLoop is outside the range loop and the
\* select of connectToSshAndServe (dialing anew, at the ctx check, asleep,
\* stopped) every sshClient made so far is closed.
C18_OneSessionOpen ==
    LET unclosed == {s \in Sessions : sess[s] \in {"open", "lost"}}
    IN  /\ Cardinality(unclosed) <= 1
        /\ unclosed \subseteq {cur}
        /\ pc \notin {"listen", "serving"} => unclosed = {}
        /\ \A s \in Sessions : (s > cur) = (sess[s] = "none")

C18_Witness ==
    /\ cur = 2
    /\ sess[1] = "closed"
    /\ sess[2] = "open"
    /\ pc = "serving"
    /\ \E f \in ForwardIds : lst[1][f] = "accepting"

\* ---- C19 (Spec)
\* C19: the error with which connectToSshAndServe leaves its select was
\* sent by a listener of the session being served and is taken from that
\* session's own channel, the channels of the other sessions staying as
\* they are; a session whose connection is up and whose listeners all
\* accept is left only through cancel().
C19_OwnFailureChannel ==
    [][ /\ (pc = "serving" /\ pc' = "returned" /\ retErr' = "err") =>
              /\ \E f \in 1..nf : lst[cur][f] = "done"
              /\ listenerStopped[cur] > 0
              /\ listenerStopped'[cur] = listenerStopped[cur] - 1
              /\ \A s \in Sessions \ {cur} :
                    listenerStopped'[s] = listenerStopped[s]
        /\ (/\ pc = "serving"
            /\ sess[cur] = "open"
            /\ \A f \in 1..nf : lst[cur][f] = "accepting"
            /\ ~cancelled) => pc' = "serving" ]_vars

\* Session 2 is healthy while a report of session 1, sent after mainLoop
\* had left session 1, lies unread in session 1's channel.
C19_Witness ==
    /\ nf = 2
    /\ cur = 2
    /\ pc = "serving"
    /\ ~cancelled
    /\ sess[2] = "open"
    /\ \A f \in 1..2 : lst[2][f] = "accepting"
    /\ listenerStopped[2] = 0
    /\ listenerStopped[1] = 1
    /\ \A f \in 1..2 : lst[1][f] = "done"

\* ---- C20 (Spec)
\* C20: when connectToSshAndServe has returned an error, and while mainLoop
\* sleeps after it, the connection dialed in that attempt is not open.
C20_FailedAttemptClosesTransport ==
    (pc \in {"returned", "sleeping"} /\ retErr = "err") => transport # "open"

====
